---- MODULE Spec2Model ----
(***************************************************************************)
(* A model of solana-edition-fixer (src/src/index.js): the Cargo.lock      *)
(* parser, the version comparator, the issue detector, the remediation     *)
(* generators, analyze, applyFixes and the command-line entry point run.   *)
(*                                                                         *)
(* A JavaScript string is a sequence of one-character strings, so that     *)
(* split, parseInt, the regular expressions and includes are computed on   *)
(* the characters.  A value that may be undefined/null/NaN is a sequence   *)
(* of length 0 (absent) or 1 (present).                                    *)
(***************************************************************************)
EXTENDS Integers, Sequences, FiniteSets, TLC

VARIABLES
    v1, v2, cmpOut,            \* compareVersions: its arguments, its results
    content, parsed,           \* parseCargoLock: the file text, the records
    pkgs, detOut,              \* findProblematicDeps: its argument, its outcome
    cmds,                      \* generateCargoUpdateCommands: its result
    args, fsys,                \* run: the argument list, the project directory
    pc, caller,                \* position of the run, who called applyFixes
    result,                    \* what analyze returned (<<>> before it ran)
    lockChecked,               \* whether analyze looked at Cargo.lock
    exitCode,                  \* process exit code (<<>> while running)
    fixIssues, fixOpts,        \* applyFixes: its issues and options arguments
    results,                   \* applyFixes: the results record it builds
    idx,                       \* applyFixes: issues handled so far
    spawned,                   \* every spawnSync call made, in order
    attempts,                  \* per issue: what the subprocess did
    configStep,                \* whether step 1 of applyFixes has run
    fsWrites                   \* every attempt to write into the project, in order

cmpVars == <<v1, v2, cmpOut>>
parseVars == <<content, parsed>>
detVars == <<pkgs, detOut, cmds>>
runVars == <<args, fsys, pc, caller, result, lockChecked, exitCode,
             fixIssues, fixOpts, results, idx, spawned, attempts, configStep, fsWrites>>
vars == <<v1, v2, cmpOut, content, parsed, pkgs, detOut, cmds,
          args, fsys, pc, caller, result, lockChecked, exitCode,
          fixIssues, fixOpts, results, idx, spawned, attempts, configStep, fsWrites>>

(***************************************************************************)
(* Bounds of the model.                                                    *)
(***************************************************************************)
MaxParts == 2      \* dot-separated components of a generated version string
MaxLines == 6      \* lines of a generated Cargo.lock text
MaxPkgs == 2       \* package records handed to findProblematicDeps
MaxLockPkgs == 2   \* package blocks of a project's Cargo.lock
MaxIssues == 2     \* issues handed to applyFixes by a direct caller

(***************************************************************************)
(* Strings.                                                                *)
(***************************************************************************)
Digits == {"0", "1", "2", "3", "4", "5", "6", "7", "8", "9"}

DigitVal(c) ==
    CASE c = "0" -> 0 [] c = "1" -> 1 [] c = "2" -> 2 [] c = "3" -> 3
      [] c = "4" -> 4 [] c = "5" -> 5 [] c = "6" -> 6 [] c = "7" -> 7
      [] c = "8" -> 8 [] c = "9" -> 9

WhiteSpace == {" ", "\t", "\r", "\n"}

\* number of leading characters of s that are not in set cs
RECURSIVE SpanNot(_, _)
SpanNot(s, cs) ==
    IF Len(s) = 0 \/ s[1] \in cs THEN 0 ELSE 1 + SpanNot(Tail(s), cs)

\* String.prototype.split with a one-character separator
RECURSIVE Split(_, _)
Split(s, sep) ==
    LET n == SpanNot(s, {sep})
    IN  IF n = Len(s) THEN <<s>>
        ELSE <<SubSeq(s, 1, n)>> \o Split(SubSeq(s, n + 2, Len(s)), sep)

\* Array.prototype.join
RECURSIVE Join(_, _)
Join(ss, sep) ==
    IF Len(ss) = 0 THEN <<>>
    ELSE IF Len(ss) = 1 THEN ss[1]
    ELSE ss[1] \o sep \o Join(Tail(ss), sep)

\* String.prototype.includes
Includes(s, sub) ==
    \E i \in 0..(Len(s) - Len(sub)) : SubSeq(s, i + 1, i + Len(sub)) = sub

\* number of leading characters of s that are in set cs
RECURSIVE Span(_, _)
Span(s, cs) ==
    IF Len(s) = 0 \/ s[1] \notin cs THEN 0 ELSE 1 + Span(Tail(s), cs)

Drop(s, n) == SubSeq(s, n + 1, Len(s))

RECURSIVE DecimalValue(_)
DecimalValue(ds) ==
    IF Len(ds) = 0 THEN 0
    ELSE 10 * DecimalValue(SubSeq(ds, 1, Len(ds) - 1)) + DigitVal(ds[Len(ds)])

\* parseInt(s, 10): leading white space is skipped, an optional sign is read,
\* then the longest run of decimal digits; NaN (<<>>) when there is none.
parseInt10(s) ==
    LET t == Drop(s, Span(s, WhiteSpace))
        neg == Len(t) > 0 /\ t[1] = "-"
        u == IF Len(t) > 0 /\ t[1] \in {"-", "+"} THEN Tail(t) ELSE t
        n == Span(u, Digits)
    IN  IF n = 0 THEN <<>>
        ELSE <<(IF neg THEN -1 ELSE 1) * DecimalValue(SubSeq(u, 1, n))>>

\* x || 0 for x a number or NaN/undefined
OrZero(x) == IF x = <<>> THEN 0 ELSE x[1]

(***************************************************************************)
(* compareVersions                                                         *)
(***************************************************************************)
\* v.split('-')[0].split('+')[0]
CleanVersion(v) == Split(Split(v, "-")[1], "+")[1]

\* clean.split('.').map(s => parseInt(s, 10) || 0)
VersionParts(v) ==
    LET ss == Split(CleanVersion(v), ".")
    IN  [i \in 1..Len(ss) |-> OrZero(parseInt10(ss[i]))]

\* parts[i] || 0
PartAt(parts, i) == IF i <= Len(parts) THEN parts[i] ELSE 0

Max(a, b) == IF a >= b THEN a ELSE b

\* a plausible slip: the loop runs over the shorter array only
RECURSIVE CompareFromShort(_, _, _)
CompareFromShort(parts1, parts2, i) ==
    IF i > Len(parts1) \/ i > Len(parts2) THEN 0
    ELSE IF parts1[i] > parts2[i] THEN 1
    ELSE IF parts1[i] < parts2[i] THEN -1
    ELSE CompareFromShort(parts1, parts2, i + 1)

\* a plausible slip: ">=" for ">" in the loop
RECURSIVE CompareFromGe(_, _, _)
CompareFromGe(parts1, parts2, i) ==
    IF i > Max(Len(parts1), Len(parts2)) THEN 0
    ELSE IF PartAt(parts1, i) >= PartAt(parts2, i) THEN 1
    ELSE -1

\* the for loop of compareVersions, from index i (1-based)
RECURSIVE CompareFrom(_, _, _)
CompareFrom(parts1, parts2, i) ==
    IF i > Max(Len(parts1), Len(parts2)) THEN 0
    ELSE IF PartAt(parts1, i) > PartAt(parts2, i) THEN 1
    ELSE IF PartAt(parts1, i) < PartAt(parts2, i) THEN -1
    ELSE CompareFrom(parts1, parts2, i + 1)

compareVersions(a, b) == CompareFrom(VersionParts(a), VersionParts(b), 1)

(***************************************************************************)
(* parseCargoLock                                                          *)
(***************************************************************************)
StartsWith(s, p) == Len(s) >= Len(p) /\ SubSeq(s, 1, Len(p)) = p

\* line.match(/^key\s*=\s*"([^"]+)"/): the captured group, or <<>> (null)
MatchField(line, key) ==
    IF ~StartsWith(line, key) THEN <<>>
    ELSE LET r1 == Drop(line, Len(key))
             r2 == Drop(r1, Span(r1, WhiteSpace))
         IN  IF Len(r2) = 0 \/ r2[1] # "=" THEN <<>>
             ELSE LET r3 == Drop(Tail(r2), Span(Tail(r2), WhiteSpace))
                  IN  IF Len(r3) = 0 \/ r3[1] # "\"" THEN <<>>
                      ELSE LET r4 == Tail(r3)
                               n == SpanNot(r4, {"\""})
                           IN  IF n >= 1 /\ Len(r4) > n THEN <<SubSeq(r4, 1, n)>>
                               ELSE <<>>

PackageDelimiter == <<"[", "[", "p", "a", "c", "k", "a", "g", "e", "]", "]">>
KeyName == <<"n", "a", "m", "e">>
KeyVersion == <<"v", "e", "r", "s", "i", "o", "n">>
KeySource == <<"s", "o", "u", "r", "c", "e">>

\* {} : the object currentPackage starts as
EmptyPackage == [name |-> <<>>, version |-> <<>>, source |-> <<>>]

\* currentPackage && currentPackage.name && currentPackage.version
Complete(cur) == cur # <<>> /\ cur[1].name # <<>> /\ cur[1].version # <<>>

\* the body of the for loop, on the in-progress record cur (<<>> is null):
\* the record as it is after the line
AfterLine(cur, line) ==
    IF line = PackageDelimiter THEN <<EmptyPackage>>
    ELSE IF cur = <<>> THEN cur
    ELSE LET nameMatch == MatchField(line, KeyName)
             versionMatch == MatchField(line, KeyVersion)
             sourceMatch == MatchField(line, KeySource)
         IN  << [name |-> IF nameMatch # <<>> THEN nameMatch ELSE cur[1].name,
                 version |-> IF versionMatch # <<>> THEN versionMatch ELSE cur[1].version,
                 source |-> IF sourceMatch # <<>> THEN sourceMatch ELSE cur[1].source] >>

\* a plausible slip: the last package is forgotten
RECURSIVE ParseLinesNoLast(_, _, _, _)
ParseLinesNoLast(lines, i, cur, packages) ==
    IF i > Len(lines) THEN packages
    ELSE ParseLinesNoLast(lines, i + 1, AfterLine(cur, lines[i]),
                          IF lines[i] = PackageDelimiter /\ Complete(cur)
                          THEN Append(packages, cur[1]) ELSE packages)

\* the for loop over lines, from line i, with the array built so far
RECURSIVE ParseLines(_, _, _, _)
ParseLines(lines, i, cur, packages) ==
    IF i > Len(lines)
    THEN \* "Don't forget the last package"
         IF Complete(cur) THEN Append(packages, cur[1]) ELSE packages
    ELSE ParseLines(lines, i + 1, AfterLine(cur, lines[i]),
                    IF lines[i] = PackageDelimiter /\ Complete(cur)
                    THEN Append(packages, cur[1]) ELSE packages)

\* parseCargoLock once the file is known to exist: the records of its text
ParseText(text) == ParseLines(Split(text, "\n"), 1, <<>>, <<>>)

\* parseCargoLock(lockPath), lock the file at lockPath: <<>> when there is no
\* such file, <<text>> otherwise.  Returns null (<<>>) or <<packages>>.
parseCargoLock(lock) == IF lock = <<>> THEN <<>> ELSE <<ParseText(lock[1])>>

(***************************************************************************)
(* The compatibility table (database.crates) and findProblematicDeps       *)
(***************************************************************************)
N_blake3 == <<"b", "l", "a", "k", "e", "3">>
N_constant_time_eq == <<"c", "o", "n", "s", "t", "a", "n", "t", "_", "t", "i", "m", "e", "_", "e", "q">>
N_base64ct == <<"b", "a", "s", "e", "6", "4", "c", "t">>
N_subtle == <<"s", "u", "b", "t", "l", "e">>
N_zeroize == <<"z", "e", "r", "o", "i", "z", "e">>
N_wit_bindgen == <<"w", "i", "t", "-", "b", "i", "n", "d", "g", "e", "n">>
N_yoke == <<"y", "o", "k", "e">>
N_serde == <<"s", "e", "r", "d", "e">>
N_constructor == <<"c", "o", "n", "s", "t", "r", "u", "c", "t", "o", "r">>
N_toString == <<"t", "o", "S", "t", "r", "i", "n", "g">>
N_valueOf == <<"v", "a", "l", "u", "e", "O", "f">>
N_hasOwnProperty == <<"h", "a", "s", "O", "w", "n", "P", "r", "o", "p", "e", "r", "t", "y">>
N_proto == <<"_", "_", "p", "r", "o", "t", "o", "_", "_">>

\* the crates of the table: name, maxCompatible, firstIncompatible
CrateRows ==
    { <<N_blake3, <<"1", ".", "5", ".", "0">>, <<"1", ".", "6", ".", "0">>>>,
      <<N_constant_time_eq, <<"0", ".", "3", ".", "1">>, <<"0", ".", "4", ".", "0">>>>,
      <<N_base64ct, <<"1", ".", "6", ".", "0">>, <<"1", ".", "7", ".", "0">>>>,
      <<N_subtle, <<"2", ".", "5", ".", "0">>, <<"2", ".", "6", ".", "0">>>>,
      <<N_zeroize, <<"1", ".", "7", ".", "0">>, <<"1", ".", "8", ".", "0">>>>,
      <<N_wit_bindgen, <<"0", ".", "2", "4", ".", "0">>, <<"0", ".", "2", "5", ".", "0">>>>,
      <<N_yoke, <<"0", ".", "7", ".", "4">>, <<"0", ".", "8", ".", "0">>>> }

CrateNames == { row[1] : row \in CrateRows }

crates == [n \in CrateNames |-> LET row == CHOOSE r \in CrateRows : r[1] = n
                                IN  [maxCompatible |-> row[2], firstIncompatible |-> row[3]]]

\* property names every object inherits from Object.prototype
ObjectPrototypeKeys == { N_constructor, N_toString, N_valueOf, N_hasOwnProperty, N_proto }

\* crates[name]: an entry of the table, a value inherited from
\* Object.prototype (truthy, and with no maxCompatible), or undefined
CratesGet(name) ==
    IF name \in DOMAIN crates THEN [kind |-> "entry", maxCompatible |-> <<crates[name].maxCompatible>>]
    ELSE IF name \in ObjectPrototypeKeys THEN [kind |-> "inherited", maxCompatible |-> <<>>]
    ELSE [kind |-> "undefined", maxCompatible |-> <<>>]

MakeIssue(pkg) ==
    [name |-> pkg.name[1],
     currentVersion |-> pkg.version[1],
     maxCompatible |-> crates[pkg.name[1]].maxCompatible,
     firstIncompatible |-> crates[pkg.name[1]].firstIncompatible,
     source |-> pkg.source]

\* the for loop of findProblematicDeps from record i: the issues returned, or
\* threw when compareVersions is handed an undefined maxCompatible, whose
\* v2.split raises a TypeError that nothing catches
RECURSIVE FindFrom(_, _, _)
FindFrom(packages, i, issues) ==
    IF i > Len(packages) THEN [threw |-> FALSE, issues |-> issues]
    ELSE LET pkg == packages[i]
             crateInfo == CratesGet(pkg.name[1])
         IN  IF crateInfo.kind = "undefined" THEN FindFrom(packages, i + 1, issues)
             ELSE IF crateInfo.maxCompatible = <<>> THEN [threw |-> TRUE, issues |-> <<>>]
             ELSE IF compareVersions(pkg.version[1], crateInfo.maxCompatible[1]) > 0
                  THEN FindFrom(packages, i + 1, Append(issues, MakeIssue(pkg)))
                  ELSE FindFrom(packages, i + 1, issues)

findProblematicDeps(packages) == FindFrom(packages, 1, <<>>)

(***************************************************************************)
(* Remediation generators                                                  *)
(***************************************************************************)
CargoUpdateP == <<"c", "a", "r", "g", "o", " ", "u", "p", "d", "a", "t", "e", " ", "-", "p", " ">>
Precise == <<" ", "-", "-", "p", "r", "e", "c", "i", "s", "e", " ">>
PatchHeader == <<"[", "p", "a", "t", "c", "h", ".", "c", "r", "a", "t", "e", "s", "-", "i", "o", "]">>

\* a plausible slip: the command pins the version found, not the compatible one
UpdateCommandCurrent(issue) == CargoUpdateP \o issue.name \o Precise \o issue.currentVersion

\* `cargo update -p ${issue.name} --precise ${issue.maxCompatible}`
UpdateCommand(issue) == CargoUpdateP \o issue.name \o Precise \o issue.maxCompatible

\* issues.map(issue => ...)
generateCargoUpdateCommands(issues) == [i \in 1..Len(issues) |-> UpdateCommand(issues[i])]

\* a plausible slip: the patch line names the version without pinning it
PatchLineUnpinned(issue) == issue.name \o <<" ", "=", " ", "\"">> \o issue.maxCompatible \o <<"\"">>

\* `${issue.name} = "=${issue.maxCompatible}"`
PatchLine(issue) == issue.name \o <<" ", "=", " ", "\"", "=">> \o issue.maxCompatible \o <<"\"">>

\* lines.join('\n') of the header and one line per issue
generatePatchSection(issues) ==
    Join(<<PatchHeader>> \o [i \in 1..Len(issues) |-> PatchLine(issues[i])], <<"\n">>)

(***************************************************************************)
(* Version strings the comparator is run on: up to MaxParts components     *)
(* joined by dots, then nothing, a pre-release suffix or a build suffix.   *)
(***************************************************************************)
Components == { <<"0">>, <<"2">>, <<"1", "0">>, <<"2", "a">>, <<"a">> }

Suffixes == { <<>>, <<"-", "b", ".", "9">>, <<"+", "b", ".", "9">> }

VersionStrings ==
    { Join(cs, <<".">>) \o sfx :
        cs \in UNION { [1..n -> Components] : n \in 1..MaxParts },
        sfx \in Suffixes }

IdleCmp == v1 = <<>> /\ v2 = <<>> /\ cmpOut = <<>>
IdleParse == content = <<>> /\ parsed = <<>>
IdleDet == pkgs = <<>> /\ detOut = <<>> /\ cmds = <<>>
IdleRun ==
    /\ args = {} /\ fsys = <<>> /\ pc = "idle" /\ caller = "none"
    /\ result = <<>> /\ lockChecked = FALSE /\ exitCode = <<>>
    /\ fixIssues = <<>> /\ fixOpts = <<>> /\ results = <<>> /\ idx = 0
    /\ spawned = <<>> /\ attempts = <<>> /\ configStep = FALSE /\ fsWrites = <<>>

InitCmp ==
    /\ v1 \in VersionStrings /\ v2 \in VersionStrings /\ cmpOut = <<>>
    /\ IdleParse /\ IdleDet /\ IdleRun

\* compareVersions(v1, v2) and compareVersions(v2, v1) are called
Compare ==
    /\ cmpOut = <<>>
    /\ cmpOut' = << [ab |-> compareVersions(v1, v2), ba |-> compareVersions(v2, v1)] >>
    /\ UNCHANGED <<v1, v2>>
    /\ UNCHANGED <<parseVars, detVars, runVars>>

NextCmp == Compare

SpecCmp == InitCmp /\ [][NextCmp]_vars

----------------------------------------------------------------------------
\* the text of a version up to its first '-' or '+'
BeforeSuffix(v) ==
    IF \A i \in 1..Len(v) : v[i] \notin {"-", "+"} THEN v
    ELSE SubSeq(v, 1, (CHOOSE k \in 1..Len(v) :
                           v[k] \in {"-", "+"} /\ \A j \in 1..(k - 1) : v[j] \notin {"-", "+"}) - 1)

\* C3: compareVersions is antisymmetric (compare(a,b) > 0 exactly when
\* compare(b,a) < 0), and two versions that differ only in what follows
\* their first '-' or '+' compare equal.
C3_Antisymmetric ==
    cmpOut # <<>> =>
        /\ (cmpOut[1].ab > 0) <=> (cmpOut[1].ba < 0)
        /\ (cmpOut[1].ab < 0) <=> (cmpOut[1].ba > 0)
        /\ BeforeSuffix(v1) = BeforeSuffix(v2) => cmpOut[1].ab = 0 /\ cmpOut[1].ba = 0

\* C3's case: two different strings with the same numeric part, one of them
\* carrying a pre-release suffix, have been compared in both directions
C3_Witness ==
    /\ cmpOut # <<>>
    /\ v1 = <<"2", ".", "1", "0", "-", "b", ".", "9">>
    /\ v2 = <<"2", ".", "1", "0">>
    /\ cmpOut[1].ab = 0

----------------------------------------------------------------------------
\* The reference ordering: the numeric tuple of a version, padded with zeros,
\* and the first differing position deciding.
AllDigits(s) == Len(s) > 0 /\ \A i \in 1..Len(s) : s[i] \in Digits

\* a component read strictly: a number if it is all digits, zero otherwise
StrictNumber(s) == IF AllDigits(s) THEN DecimalValue(s) ELSE 0

\* a component read by its leading digits (after leading white space), zero
\* when it has none
LeadingNumber(s) ==
    LET t == Drop(s, Span(s, WhiteSpace))
    IN  DecimalValue(SubSeq(t, 1, Span(t, Digits)))

StrictTuple(v) ==
    LET ss == Split(BeforeSuffix(v), ".") IN [i \in 1..Len(ss) |-> StrictNumber(ss[i])]

LeadingTuple(v) ==
    LET ss == Split(BeforeSuffix(v), ".") IN [i \in 1..Len(ss) |-> LeadingNumber(ss[i])]

Padded(t, n) == [i \in 1..n |-> IF i <= Len(t) THEN t[i] ELSE 0]

RefOrder(ta, tb) ==
    LET n == Max(Len(ta), Len(tb))
        pa == Padded(ta, n)
        pb == Padded(tb, n)
        diff == { i \in 1..n : pa[i] # pb[i] }
    IN  IF diff = {} THEN 0
        ELSE LET k == CHOOSE i \in diff : \A j \in diff : i <= j
             IN  IF pa[k] > pb[k] THEN 1 ELSE -1

\* C4 as stated: compareVersions agrees with the reference ordering in which
\* every non-numeric component counts as zero.
C4_StrictReference ==
    cmpOut # <<>> =>
        /\ cmpOut[1].ab = RefOrder(StrictTuple(v1), StrictTuple(v2))
        /\ cmpOut[1].ba = RefOrder(StrictTuple(v2), StrictTuple(v1))

\* C4 amended: compareVersions agrees with the reference ordering in which a
\* component counts as the number its leading decimal digits spell, and as
\* zero only when it has no leading digit.
C4_LeadingDigitsReference ==
    cmpOut # <<>> =>
        /\ cmpOut[1].ab = RefOrder(LeadingTuple(v1), LeadingTuple(v2))
        /\ cmpOut[1].ba = RefOrder(LeadingTuple(v2), LeadingTuple(v1))

\* C4's case: a version with a missing trailing component and a component
\* that has no digit has been compared with one that differs only there
C4_Witness ==
    /\ cmpOut # <<>>
    /\ v1 = <<"1", "0", ".", "a">>
    /\ v2 = <<"1", "0">>
    /\ cmpOut[1].ab = 0

(***************************************************************************)
(* Lockfile texts the parser is run on: up to MaxLines lines, each one of  *)
(* the line shapes a Cargo.lock holds.                                     *)
(***************************************************************************)
Quoted(key, val) == key \o <<" ", "=", " ", "\"">> \o val \o <<"\"">>

LineSet ==
    { PackageDelimiter,
      Quoted(KeyName, <<"a">>),                       \* name = "a"
      KeyName \o <<"=", "\"", "b", "\"">>,            \* name="b"
      Quoted(KeyVersion, <<"1">>),                    \* version = "1"
      KeyVersion \o <<" ", "=", " ", "3">> }          \* version = 3

\* the empty file, and the texts of 1..MaxLines lines
LockTexts ==
    { <<>> } \cup
    { Join(ls, <<"\n">>) : ls \in UNION { [1..n -> LineSet] : n \in 1..MaxLines } }

InitParse ==
    /\ content \in LockTexts /\ parsed = <<>>
    /\ IdleCmp /\ IdleDet /\ IdleRun

\* parseCargoLock is called on a file holding content
Parse ==
    /\ parsed = <<>>
    /\ parsed' = parseCargoLock(<<content>>)
    /\ UNCHANGED content
    /\ UNCHANGED <<cmpVars, detVars, runVars>>

NextParse == Parse

SpecParse == InitParse /\ [][NextParse]_vars

----------------------------------------------------------------------------
\* The blocks of a text: a block starts at a delimiter line and runs up to
\* the next delimiter line or the end of the text.
BlockStarts(lines) == { i \in 1..Len(lines) : lines[i] = PackageDelimiter }

BlockBody(lines, i) ==
    { j \in (i + 1)..Len(lines) : \A k \in (i + 1)..j : lines[k] # PackageDelimiter }

FieldValues(lines, i, key) ==
    { MatchField(lines[j], key)[1] :
        j \in { k \in BlockBody(lines, i) : MatchField(lines[k], key) # <<>> } }

CompleteBlocks(lines) ==
    { i \in BlockStarts(lines) :
        FieldValues(lines, i, KeyName) # {} /\ FieldValues(lines, i, KeyVersion) # {} }

\* the k-th member of a set of line numbers, in source order
Nth(S, k) == CHOOSE i \in S : Cardinality({ j \in S : j < i }) = k - 1

V183 == <<"1", ".", "8", ".", "3">>
V150 == <<"1", ".", "5", ".", "0">>
V250 == <<"2", ".", "5", ".", "0">>
V260 == <<"2", ".", "6", ".", "0">>

W_cargo == <<"c", "a", "r", "g", "o">>
W_update == <<"u", "p", "d", "a", "t", "e">>
W_p == <<"-", "p">>
W_precise == <<"-", "-", "p", "r", "e", "c", "i", "s", "e">>

(***************************************************************************)
(* Package records the detector is run on: up to MaxPkgs records, in the   *)
(* shape the parser produces, with names in and out of the table.          *)
(***************************************************************************)
DetNames == { N_blake3, N_subtle, N_zeroize, N_serde, N_constructor }

DetVersions == { V183, V150, V250, V260 }

DetRecords ==
    { [name |-> <<n>>, version |-> <<v>>, source |-> <<>>] : n \in DetNames, v \in DetVersions }

InitDetect ==
    /\ pkgs \in UNION { [1..n -> DetRecords] : n \in 0..MaxPkgs }
    /\ detOut = <<>> /\ cmds = <<>>
    /\ IdleCmp /\ IdleParse /\ IdleRun

\* findProblematicDeps(pkgs) is called
Detect ==
    /\ detOut = <<>>
    /\ detOut' = <<findProblematicDeps(pkgs)>>
    /\ UNCHANGED <<pkgs, cmds>>
    /\ UNCHANGED <<cmpVars, parseVars, runVars>>

\* generateCargoUpdateCommands is called on the issues found
GenerateCommands ==
    /\ detOut # <<>> /\ ~detOut[1].threw /\ cmds = <<>>
    /\ cmds' = <<generateCargoUpdateCommands(detOut[1].issues)>>
    /\ UNCHANGED <<pkgs, detOut>>
    /\ UNCHANGED <<cmpVars, parseVars, runVars>>

NextDetect == Detect \/ GenerateCommands

SpecDetect == InitDetect /\ [][NextDetect]_vars

----------------------------------------------------------------------------
\* the records of a sequence that satisfy Test, in their order
RECURSIVE Select(_, _)
Select(seq, keep) ==
    IF Len(seq) = 0 THEN <<>>
    ELSE (IF seq[1] \in keep THEN <<seq[1]>> ELSE <<>>) \o Select(Tail(seq), keep)

\* the records the table declares incompatible
Incompatible ==
    { r \in DetRecords :
        /\ r.name[1] \in CrateNames
        /\ compareVersions(r.version[1], crates[r.name[1]].maxCompatible) > 0 }

\* C1: findProblematicDeps returns one Issue for every record whose name is
\* a key of the table and whose version is greater than maxCompatible, none
\* for any other record, in the order of the records.
C1_IssuesAreExactlyTheIncompatible ==
    detOut # <<>> =>
        /\ ~detOut[1].threw
        /\ LET expected == Select(pkgs, Incompatible)
               issues == detOut[1].issues
           IN  /\ Len(issues) = Len(expected)
               /\ \A i \in 1..Len(issues) :
                     /\ issues[i].name = expected[i].name[1]
                     /\ issues[i].currentVersion = expected[i].version[1]
                     /\ issues[i].maxCompatible = crates[issues[i].name].maxCompatible
                     /\ compareVersions(issues[i].currentVersion, issues[i].maxCompatible) > 0

----------------------------------------------------------------------------
\* C5 as stated: one command per issue, in issue order, each exactly
\* "update -p <name> --precise <maxCompatible>".
C5_CommandIsUpdateP ==
    (cmds # <<>> /\ detOut # <<>>) =>
        /\ Len(cmds[1]) = Len(detOut[1].issues)
        /\ \A i \in 1..Len(cmds[1]) :
              Split(cmds[1][i], " ") =
                  << W_update, W_p, detOut[1].issues[i].name,
                     W_precise, detOut[1].issues[i].maxCompatible >>

\* C5 amended: one command per issue, in issue order, each exactly
\* "cargo update -p <name> --precise <maxCompatible>".
C5_CommandIsCargoUpdateP ==
    (cmds # <<>> /\ detOut # <<>>) =>
        /\ Len(cmds[1]) = Len(detOut[1].issues)
        /\ \A i \in 1..Len(cmds[1]) :
              Split(cmds[1][i], " ") =
                  << W_cargo, W_update, W_p, detOut[1].issues[i].name,
                     W_precise, detOut[1].issues[i].maxCompatible >>

\* C5's case: commands have been generated for two issues of the same name
C5_Witness ==
    /\ cmds # <<>> /\ detOut # <<>>
    /\ Len(detOut[1].issues) = 2
    /\ detOut[1].issues[1].name = N_zeroize
    /\ detOut[1].issues[2].name = N_zeroize
    /\ Len(cmds[1]) = 2

(***************************************************************************)
(* checkCargoToml and analyze                                              *)
(* The project directory is fsys = [manifest, lock, config, writeFails]:   *)
(* each file is <<>> when absent and <<text>> when present; writeFails     *)
(* says whether creating .cargo/config.toml raises.                        *)
(***************************************************************************)
KeyRustVersion == <<"r", "u", "s", "t", "-", "v", "e", "r", "s", "i", "o", "n">>

\* /rust-version\s*=/ matched at the start of s
RustVersionAt(s) ==
    /\ StartsWith(s, KeyRustVersion)
    /\ LET r == Drop(s, Len(KeyRustVersion))
           t == Drop(r, Span(r, WhiteSpace))
       IN  Len(t) > 0 /\ t[1] = "="

checkCargoToml(manifest) ==
    IF manifest = <<>> THEN [exists |-> FALSE]
    ELSE LET text == manifest[1]
             hits == { i \in 0..Len(text) : MatchField(Drop(text, i), KeyRustVersion) # <<>> }
         IN  [exists |-> TRUE,
              hasRustVersion |-> \E i \in 0..Len(text) : RustVersionAt(Drop(text, i)),
              rustVersion |-> IF hits = {} THEN <<>>
                              ELSE MatchField(Drop(text, CHOOSE i \in hits : \A j \in hits : i <= j),
                                              KeyRustVersion),
              hasPatchSection |-> Includes(text, PatchHeader)]

ErrNoCargoToml == "No Cargo.toml found in <projectPath>"
ErrNoCargoLock == "No Cargo.lock found. Run cargo generate-lockfile first."

\* a plausible slip: an empty package list is taken for a missing lockfile
NoPackagesOrEmpty(packages) == packages = <<>> \/ packages[1] = <<>>

\* !packages : null is falsy, every array (the empty one too) is truthy
NoPackages(packages) == packages = <<>>

\* lines 393-404: the successful result, found being what
\* findProblematicDeps returned; <<>> when it raised, which analyze does not
\* catch
AnalyzeFound(cargoTomlInfo, packages, found) ==
    IF found.threw THEN <<>>
    ELSE << [success |-> TRUE,
             totalPackages |-> Len(packages),
             issues |-> found.issues,
             cargoTomlInfo |-> cargoTomlInfo,
             commands |-> generateCargoUpdateCommands(found.issues),
             patchSection |-> generatePatchSection(found.issues)] >>

\* lines 385-404: analyze once the manifest is known to exist, packages
\* being what parseCargoLock returned
AnalyzeLock(cargoTomlInfo, packages) ==
    IF NoPackages(packages)
    THEN << [success |-> FALSE, error |-> ErrNoCargoLock, cargoTomlInfo |-> cargoTomlInfo] >>
    ELSE AnalyzeFound(cargoTomlInfo, packages[1], findProblematicDeps(packages[1]))

\* analyze(projectPath): what it returns (<<>> when it raised) and whether
\* Cargo.lock was looked at
analyze(fs) ==
    IF fs.manifest = <<>>
    THEN [lockChecked |-> FALSE,
          result |-> << [success |-> FALSE, error |-> ErrNoCargoToml] >>]
    ELSE [lockChecked |-> TRUE,
          result |-> AnalyzeLock(checkCargoToml(fs.manifest), parseCargoLock(fs.lock))]

(***************************************************************************)
(* run: the options read from the argument list                            *)
(***************************************************************************)
Options(a) ==
    [fix |-> "--fix" \in a \/ "-f" \in a,
     dryRun |-> "--dry-run" \in a \/ "-d" \in a,
     check |-> "--check" \in a \/ "-c" \in a,
     verbose |-> "--verbose" \in a \/ "-v" \in a,
     quiet |-> "--quiet" \in a \/ "-q" \in a,
     json |-> "--json" \in a,
     help |-> "--help" \in a \/ "-h" \in a,
     version |-> "--version" \in a]

\* result.issues && result.issues.length > 0
HasIssues(res) == "issues" \in DOMAIN res /\ Len(res.issues) > 0

\* lines 447-512: where run goes once analyze has returned res
AfterAnalysis(options, res) ==
    IF options.json
    THEN (IF options.check /\ HasIssues(res) THEN "exit" ELSE "return")
    ELSE IF ~res.success THEN "exit"
    ELSE IF Len(res.issues) = 0 THEN "return"
    ELSE IF options.check THEN "exit"
    ELSE IF options.fix THEN "fix"
    ELSE "return"

\* lines 427-445: an is what analyze does on the project
BeforeAnalysis(options, an) ==
    IF options.version \/ options.help
    THEN [to |-> "return", result |-> <<>>, lockChecked |-> FALSE]
    ELSE IF an.result = <<>>
    THEN [to |-> "throw", result |-> <<>>, lockChecked |-> an.lockChecked]
    ELSE [to |-> AfterAnalysis(options, an.result[1]),
          result |-> an.result, lockChecked |-> an.lockChecked]

\* The part of run before applyFixes: where the run stands afterwards.
\* "exit" is process.exit(1), "return" a normal return of run, "throw" an
\* uncaught exception (node ends the process with code 1), "fix" the call of
\* applyFixes at line 512.
RunOutcome(a, fs) == BeforeAnalysis(Options(a), analyze(fs))

(***************************************************************************)
(* applyFixes                                                              *)
(***************************************************************************)
\* generateCargoConfig(): the static text, line by line
generateCargoConfig ==
    << "# Cargo configuration for Solana/Anchor compatibility",
       "# Generated by solana-edition-fixer",
       "# https://github.com/volta-team/solana-edition-fixer",
       "",
       "[resolver]",
       "# MSRV-aware resolver - prefer versions compatible with rust-version",
       "# Requires Cargo 1.84+ to have effect",
       "incompatible-rust-versions = \"fallback\"",
       "",
       "[net]",
       "# Use git CLI for fetching (more reliable on some systems)",
       "git-fetch-with-cli = true",
       "",
       "[registries.crates-io]",
       "# Use sparse registry protocol (faster and more stable)",
       "protocol = \"sparse\"",
       "",
       "[build]",
       "# Recommended for Solana builds",
       "rustflags = [\"-C\", \"target-cpu=sbfv2\"]",
       "" >>

NotFound == <<"n", "o", "t", " ", "f", "o", "u", "n", "d">>
UnknownError == <<"U", "n", "k", "n", "o", "w", "n", " ", "e", "r", "r", "o", "r">>

\* what cargo can write on its standard error
StderrNotInTree == <<"e", "r", "r", "o", "r", ":", " ", "n", "o", "t", " ", "f", "o", "u", "n", "d">>
StderrOther == <<"e", "r", "r", "o", "r", ":", " ", "l", "o", "c", "k", "e", "d">>
SpawnMessage == <<"E", "I", "N", "V", "A", "L">>

\* What one spawnSync call can do: raise (threw), or return with the exit
\* status of cargo (<<0>>, <<101>>, or <<>> for null when cargo could not be
\* started) and the text cargo wrote on its standard error.
SpawnOutcomes ==
    { [threw |-> TRUE, status |-> <<>>, wrote |-> <<>>],
      [threw |-> FALSE, status |-> <<>>, wrote |-> <<>>],
      [threw |-> FALSE, status |-> <<0>>, wrote |-> <<>>],
      [threw |-> FALSE, status |-> <<101>>, wrote |-> <<>>],
      [threw |-> FALSE, status |-> <<101>>, wrote |-> StderrNotInTree],
      [threw |-> FALSE, status |-> <<101>>, wrote |-> StderrOther] }

\* result.stderr: the text when stdio is 'pipe'; null (<<>>) when stdio is
\* 'inherit' (verbose) and when cargo could not be started
ResultStderr(out, verbose) ==
    IF verbose \/ out.status = <<>> THEN <<>> ELSE <<out.wrote>>

\* truthiness of result.stderr: null and "" are falsy
Truthy(stderr) == stderr # <<>> /\ stderr[1] # <<>>

\* lines 322-358: the list the issue goes to and, for failed, the error kept
Classify(out, verbose) ==
    LET stderr == ResultStderr(out, verbose)
    IN  IF out.threw THEN [list |-> "failed", error |-> SpawnMessage]
        ELSE IF out.status = <<0>> THEN [list |-> "updated", error |-> <<>>]
        ELSE IF Truthy(stderr) /\ Includes(stderr[1], NotFound)
             THEN [list |-> "skipped", error |-> <<>>]
        ELSE [list |-> "failed",
              error |-> IF Truthy(stderr) THEN stderr[1] ELSE UnknownError]

\* line 293: path.join(projectPath, '.cargo', 'config.toml')
ConfigPath == ".cargo/config.toml"

EmptyResults ==
    [updated |-> <<>>, failed |-> <<>>, skipped |-> <<>>,
     configCreated |-> FALSE, cargoTomlUpdated |-> FALSE]

\* lines 280-313, step 1: the results record after it
ConfigStepResults(fs) ==
    IF fs.config = <<>> /\ ~fs.writeFails
    THEN [EmptyResults EXCEPT !.configCreated = TRUE]
    ELSE EmptyResults

\* lines 296-301, step 1: the project directory after it
ConfigStepFiles(fs) ==
    IF fs.config = <<>> /\ ~fs.writeFails
    THEN [fs EXCEPT !.config = <<generateCargoConfig>>]
    ELSE fs

\* lines 296-301, step 1: the writeFileSync call it makes, if any, and
\* whether the call (or the mkdirSync before it) raised
ConfigStepWrites(fs) ==
    IF fs.config = <<>>
    THEN << [file |-> ConfigPath, text |-> generateCargoConfig, raised |-> fs.writeFails] >>
    ELSE <<>>

\* spawnSync('cargo', ['update', '-p', name, '--precise', maxCompatible], ...)
SpawnCall(issue, verbose) ==
    [command |-> W_cargo,
     args |-> <<W_update, W_p, issue.name, W_precise, issue.maxCompatible>>,
     stdio |-> IF verbose THEN "inherit" ELSE "pipe"]

\* lines 331-358: the results record with the issue added to its list
Recorded(res, issue, class) ==
    IF class.list = "updated" THEN [res EXCEPT !.updated = Append(@, issue.name)]
    ELSE IF class.list = "skipped" THEN [res EXCEPT !.skipped = Append(@, issue.name)]
    ELSE [res EXCEPT !.failed = Append(@, [name |-> issue.name, error |-> class.error])]

\* a plausible slip: the try block is around the loop, so a raise ends it
AfterAttemptAbort(i, n, out) == IF out.threw THEN n ELSE i + 1

\* the for loop of line 316: the try/catch is inside its body, so the loop
\* goes on to the next issue whatever the outcome
AfterAttempt(i, n, out) == i + 1

(***************************************************************************)
(* The runs: the command-line tool on a project, and a direct call of      *)
(* applyFixes.                                                             *)
(***************************************************************************)
LongArgs == [fix |-> "--fix", dryRun |-> "--dry-run", check |-> "--check",
             verbose |-> "--verbose", quiet |-> "--quiet", json |-> "--json",
             help |-> "--help", version |-> "--version"]

ShortArgs == [fix |-> "-f", dryRun |-> "-d", check |-> "-c",
              verbose |-> "-v", quiet |-> "-q", json |-> "--json",
              help |-> "-h", version |-> "--version"]

\* every combination of the eight options, in long and in short spelling
ArgLists ==
    { { LongArgs[o] : o \in on } : on \in SUBSET DOMAIN LongArgs } \cup
    { { ShortArgs[o] : o \in on } : on \in SUBSET DOMAIN ShortArgs }

ManifestText == <<"r", "u", "s", "t", "-", "v", "e", "r", "s", "i", "o", "n", " ", "=", " ", "\"", "1", ".", "7", "5", "\"">>

LockHeader == << KeyVersion \o <<" ", "=", " ", "3">>, <<>> >>

LockBlock(name, version) ==
    << PackageDelimiter, Quoted(KeyName, name), Quoted(KeyVersion, version),
       Quoted(KeySource, <<"r">>), <<>> >>

LockBlocks ==
    { LockBlock(N_blake3, V183), LockBlock(N_zeroize, V183),
      LockBlock(N_subtle, V250), LockBlock(N_constructor, V150) }

RECURSIVE Flatten(_)
Flatten(ss) == IF Len(ss) = 0 THEN <<>> ELSE ss[1] \o Flatten(Tail(ss))

\* Cargo.lock: absent, empty, or a header and 1..MaxLockPkgs package blocks
ProjectLocks ==
    { <<>>, << <<>> >> } \cup
    { << Join(LockHeader \o Flatten(bs), <<"\n">>) >> :
        bs \in UNION { [1..n -> LockBlocks] : n \in 1..MaxLockPkgs } }

\* .cargo/config.toml: present with the user's text, present as an earlier
\* applyFixes left it, absent and creatable, absent and not creatable
ProjectConfigs ==
    { [config |-> << <<"[net]">> >>, writeFails |-> FALSE],
      [config |-> <<generateCargoConfig>>, writeFails |-> FALSE],
      [config |-> <<>>, writeFails |-> FALSE],
      [config |-> <<>>, writeFails |-> TRUE] }

CliProjects ==
    { [manifest |-> m, lock |-> l, config |-> c.config, writeFails |-> c.writeFails] :
        m \in { <<>>, <<ManifestText>> }, l \in ProjectLocks, c \in ProjectConfigs }

ApiProjects ==
    { [manifest |-> <<ManifestText>>, lock |-> <<>>,
       config |-> c.config, writeFails |-> c.writeFails] : c \in ProjectConfigs }

ApiIssues ==
    { MakeIssue([name |-> <<N_blake3>>, version |-> <<V183>>, source |-> <<>>]),
      MakeIssue([name |-> <<N_zeroize>>, version |-> <<V183>>, source |-> <<>>]) }

ApiIssueLists == UNION { [1..n -> ApiIssues] : n \in 0..MaxIssues }

Init ==
    /\ IdleCmp /\ IdleParse /\ IdleDet
    /\ \/ caller = "cli" /\ args \in ArgLists /\ fsys \in CliProjects
       \/ caller = "api" /\ args = {} /\ fsys \in ApiProjects
    /\ pc = "start"
    /\ result = <<>> /\ lockChecked = FALSE /\ exitCode = <<>>
    /\ fixIssues = <<>> /\ fixOpts = [verbose |-> FALSE, quiet |-> FALSE]
    /\ results = EmptyResults /\ idx = 0
    /\ spawned = <<>> /\ attempts = <<>> /\ configStep = FALSE /\ fsWrites = <<>>

\* run(args), up to its end or to its call of applyFixes
RunCli ==
    /\ pc = "start" /\ caller = "cli"
    /\ \E o \in { RunOutcome(args, fsys) } :
           /\ result' = o.result
           /\ lockChecked' = o.lockChecked
           /\ pc' = IF o.to = "fix" THEN "fixConfig"
                    ELSE IF o.to = "throw" THEN "crashed" ELSE "done"
           /\ exitCode' = IF o.to = "fix" THEN <<>>
                          ELSE IF o.to = "return" THEN <<0>> ELSE <<1>>
           /\ fixIssues' = IF o.to = "fix" THEN o.result[1].issues ELSE <<>>
           /\ fixOpts' = [verbose |-> Options(args).verbose, quiet |-> Options(args).quiet]
    /\ UNCHANGED <<args, fsys, caller, results, idx, spawned, attempts, configStep, fsWrites>>
    /\ UNCHANGED <<cmpVars, parseVars, detVars>>

\* applyFixes(projectPath, issues, options) called by a program
CallApplyFixes ==
    /\ pc = "start" /\ caller = "api"
    /\ \E issues \in ApiIssueLists, verbose \in BOOLEAN, quiet \in BOOLEAN :
          /\ fixIssues' = issues
          /\ fixOpts' = [verbose |-> verbose, quiet |-> quiet]
    /\ pc' = "fixConfig"
    /\ UNCHANGED <<args, fsys, caller, result, lockChecked, exitCode,
                   results, idx, spawned, attempts, configStep, fsWrites>>
    /\ UNCHANGED <<cmpVars, parseVars, detVars>>

\* applyFixes, step 1: .cargo/config.toml
ApplyConfig ==
    /\ pc = "fixConfig"
    /\ results' = ConfigStepResults(fsys)
    /\ fsys' = ConfigStepFiles(fsys)
    /\ fsWrites' = fsWrites \o ConfigStepWrites(fsys)
    /\ configStep' = TRUE
    /\ idx' = 0
    /\ pc' = "fixLoop"
    /\ UNCHANGED <<args, caller, result, lockChecked, exitCode,
                   fixIssues, fixOpts, spawned, attempts>>
    /\ UNCHANGED <<cmpVars, parseVars, detVars>>

\* applyFixes, step 2: one turn of the loop, cargo doing one of the things
\* it can do
ApplyIssue ==
    /\ pc = "fixLoop" /\ idx < Len(fixIssues)
    /\ \E out \in SpawnOutcomes :
          LET issue == fixIssues[idx + 1]
          IN  /\ spawned' = Append(spawned, SpawnCall(issue, fixOpts.verbose))
              /\ attempts' = Append(attempts, out)
              /\ results' = Recorded(results, issue, Classify(out, fixOpts.verbose))
              /\ idx' = AfterAttempt(idx, Len(fixIssues), out)
    /\ UNCHANGED <<args, fsys, pc, caller, result, lockChecked, exitCode,
                   fixIssues, fixOpts, configStep, fsWrites>>
    /\ UNCHANGED <<cmpVars, parseVars, detVars>>

\* applyFixes returns results; run, when it is the caller, reports and returns
ApplyReturn ==
    /\ pc = "fixLoop" /\ idx >= Len(fixIssues)
    /\ pc' = "done"
    /\ exitCode' = IF caller = "cli" THEN <<0>> ELSE <<>>
    /\ UNCHANGED <<args, fsys, caller, result, lockChecked,
                   fixIssues, fixOpts, results, idx, spawned, attempts, configStep, fsWrites>>
    /\ UNCHANGED <<cmpVars, parseVars, detVars>>

Next == RunCli \/ CallApplyFixes \/ ApplyConfig \/ ApplyIssue \/ ApplyReturn

Spec == Init /\ [][Next]_vars

----------------------------------------------------------------------------
\* the number of positions of seq that hold x
Count(seq, x) == Cardinality({ i \in 1..Len(seq) : seq[i] = x })

\* the members of seq at the positions in keep, in order
RECURSIVE Pick(_, _, _)
Pick(seq, keep, i) ==
    IF i > Len(seq) THEN <<>>
    ELSE (IF i \in keep THEN <<seq[i]>> ELSE <<>>) \o Pick(seq, keep, i + 1)

\* applyFixes has started
InApplyFixes == configStep /\ pc \in {"fixLoop", "done"}

\* The list the classification rule sends an attempt to: exit code zero is
\* an update; a non-zero exit whose error text says the package is not in
\* the dependency graph is a skip; anything else is a failure.
RuleList(out) ==
    IF ~out.threw /\ out.status = <<0>> THEN "updated"
    ELSE IF ~out.threw /\ out.status = <<101>> /\ Includes(out.wrote, NotFound) THEN "skipped"
    ELSE "failed"

AttemptsTo(list) == { k \in 1..Len(attempts) : RuleList(attempts[k]) = list }

IssueNames == [k \in 1..Len(fixIssues) |-> fixIssues[k].name]

\* C6: for either verbosity setting, exit code zero puts the issue in
\* updated, a non-zero exit whose error text says "not found" puts it in
\* skipped and not in failed, and any other outcome puts it in failed with
\* the error text cargo wrote.
C6_ClassifiedByRule ==
    InApplyFixes =>
        /\ results.updated = Pick(IssueNames, AttemptsTo("updated"), 1)
        /\ results.skipped = Pick(IssueNames, AttemptsTo("skipped"), 1)
        /\ [k \in 1..Len(results.failed) |-> results.failed[k].name]
               = Pick(IssueNames, AttemptsTo("failed"), 1)
        /\ LET failing == Pick(attempts, AttemptsTo("failed"), 1)
           IN  \A k \in 1..Len(results.failed) :
                  (~fixOpts.verbose /\ k <= Len(failing) /\ failing[k].wrote # <<>>)
                      => results.failed[k].error = failing[k].wrote

\* C7: applyFixes calls cargo once per issue, in list order, whatever the
\* earlier outcomes; every issue handled is in exactly one of updated,
\* skipped and failed; when it returns every issue has been handled.
C7_EveryIssueAttemptedOnce ==
    InApplyFixes =>
        /\ idx <= Len(fixIssues)
        /\ Len(spawned) = idx
        /\ \A k \in 1..Len(spawned) :
              /\ spawned[k].args[3] = fixIssues[k].name
              /\ spawned[k].args[5] = fixIssues[k].maxCompatible
        /\ Len(results.updated) + Len(results.skipped) + Len(results.failed) = idx
        /\ \A n \in { fixIssues[k].name : k \in 1..Len(fixIssues) } :
              Count(results.updated, n) + Count(results.skipped, n)
                + Cardinality({ k \in 1..Len(results.failed) : results.failed[k].name = n })
              = Count(SubSeq(IssueNames, 1, idx), n)
        /\ pc = "done" => idx = Len(fixIssues)

\* C7's case: applyFixes has returned after a first call that raised and a
\* second that succeeded
C7_Witness ==
    /\ InApplyFixes /\ pc = "done"
    /\ Len(fixIssues) = 2
    /\ attempts[1].threw
    /\ attempts[2].status = <<0>>
    /\ Len(results.failed) = 1 /\ Len(results.updated) = 1

----------------------------------------------------------------------------
\* run has called analyze and analyze has returned
Analyzed ==
    /\ caller = "cli" /\ pc # "start" /\ result # <<>>
    /\ ~Options(args).help /\ ~Options(args).version

\* C8: analyze without a manifest fails with an error, returns nothing more
\* and does not look at the lockfile; with a manifest and no lockfile it
\* fails with an error and the manifest's metadata; with a manifest and an
\* empty lockfile it succeeds with zero packages and no issue.
C8_ThreeSituations ==
    Analyzed =>
        /\ fsys.manifest = <<>> =>
              /\ result[1].success = FALSE
              /\ result[1].error # ""
              /\ DOMAIN result[1] = {"success", "error"}
              /\ ~lockChecked
        /\ (fsys.manifest # <<>> /\ fsys.lock = <<>>) =>
              /\ result[1].success = FALSE
              /\ result[1].error # ""
              /\ "cargoTomlInfo" \in DOMAIN result[1]
              /\ result[1].cargoTomlInfo.exists
              /\ "issues" \notin DOMAIN result[1]
        /\ (fsys.manifest # <<>> /\ fsys.lock = << <<>> >>) =>
              /\ result[1].success = TRUE
              /\ result[1].totalPackages = 0
              /\ result[1].issues = <<>>

\* C8's case: analyze has run on a project with a manifest and an empty
\* lockfile
C8_Witness ==
    /\ Analyzed
    /\ fsys.manifest # <<>> /\ fsys.lock = << <<>> >>
    /\ result[1].success = TRUE
    /\ result[1].totalPackages = 0

----------------------------------------------------------------------------
\* a fatal error occurred, or issues were found in check mode
MustFail ==
    /\ ~Options(args).help /\ ~Options(args).version
    /\ \/ fsys.manifest = <<>>
       \/ fsys.lock = <<>>
       \/ Options(args).check /\ result # <<>> /\ HasIssues(result[1])

\* C9: for every combination of options the exit code is 1 when issues are
\* found in check mode or a fatal error occurs (missing manifest, missing
\* lockfile), and 0 otherwise.
C9_ExitCode ==
    (caller = "cli" /\ pc = "done") =>
        exitCode = IF MustFail THEN <<1>> ELSE <<0>>

----------------------------------------------------------------------------
\* the command line asks for a fix and for nothing that overrides it
FixRequested ==
    /\ Options(args).fix
    /\ ~Options(args).check /\ ~Options(args).json
    /\ ~Options(args).help /\ ~Options(args).version

\* C10: fix with zero issues performs the config-file step and invokes no
\* subprocess, both when applyFixes is called with no issue and when the
\* command line asks for a fix on a project whose analysis finds no issue.
C10_ZeroIssuesConfigOnly ==
    /\ (caller = "api" /\ pc = "done" /\ fixIssues = <<>>) =>
          configStep /\ spawned = <<>>
    /\ (caller = "cli" /\ pc = "done" /\ FixRequested
          /\ result # <<>> /\ result[1].success /\ result[1].issues = <<>>) =>
          configStep /\ spawned = <<>>

----------------------------------------------------------------------------
\* the results record applyFixes has after step 1 when it found the file
\* (not-created) and when it wrote the file (created)
NotCreatedResults == EmptyResults
CreatedResults == [EmptyResults EXCEPT !.configCreated = TRUE]

\* C11: step 1 of applyFixes runs before any subprocess is invoked; a
\* .cargo/config.toml that exists keeps its content and the status is
\* not-created; one that is absent and can be written gets exactly the text
\* of generateCargoConfig() and the status is created; when the write fails
\* the result records a failed status that differs from not-created (and
\* from created), and the per-issue loop still runs.
C11_ConfigStep ==
    [][ pc = "fixConfig" =>
          /\ spawned = <<>> /\ spawned' = <<>>
          /\ pc' = "fixLoop"
          /\ fsys.config # <<>> =>
                /\ fsys' = fsys /\ fsWrites' = fsWrites
                /\ results' = NotCreatedResults
          /\ (fsys.config = <<>> /\ ~fsys.writeFails) =>
                /\ fsys'.config = <<generateCargoConfig>>
                /\ results' = CreatedResults
          /\ (fsys.config = <<>> /\ fsys.writeFails) =>
                /\ fsys' = fsys
                /\ results' \notin { NotCreatedResults, CreatedResults }
      ]_vars

----------------------------------------------------------------------------
\* the command line does not put the run in fix mode
NotFixMode ==
    Options(args).dryRun \/ Options(args).check \/ ~Options(args).fix

\* C12: when --dry-run (-d) or --check (-c) is among the arguments, or --fix
\* (-f) is not, the run writes no file, leaves .cargo/config.toml as it was
\* and spawns no subprocess, whatever the other options and the project.
C12_OnlyFixModeActs ==
    (caller = "cli" /\ NotFixMode) =>
        /\ fsWrites = <<>>
        /\ spawned = <<>>
        /\ ~configStep

----------------------------------------------------------------------------
\* C13: detection never raises: for every sequence of package records,
\* whatever their names and version strings, findProblematicDeps returns a
\* list of issues, possibly empty, with at most one issue per record.
C13_DetectionNeverRaises ==
    detOut # <<>> =>
        /\ detOut[1].threw = FALSE
        /\ Len(detOut[1].issues) <= Len(pkgs)

----------------------------------------------------------------------------
\* analyze has just returned to run: run holds the result and has taken no
\* step of a fix yet (the result does not change afterwards)
AnalysisReturned == Analyzed /\ ~configStep

\* the words of a command line
Words(cmd) == Split(cmd, " ")

\* the line a patch section has for a crate pinned to a version
PinLine(name, version) ==
    name \o <<" ", "=", " ", "\"", "=">> \o version \o <<"\"">>

\* C14: in every successful result of analyze, totalPackages is the number
\* of records the parser returned for the lockfile; commands has one entry
\* per issue, the i-th naming the i-th issue's name and maxCompatible;
\* patchSection is the header line followed by one line per issue, in the
\* order of the issues, of the form <name> = "=<maxCompatible>", that is
\* 1 + |issues| lines; and every issue's currentVersion compares greater
\* than its maxCompatible.
C14_ResultConsistent ==
    (AnalysisReturned /\ result[1].success) =>
        LET res == result[1]
            n == Len(res.issues)
            patchLines == Split(res.patchSection, "\n")
        IN  /\ res.totalPackages = Len(parseCargoLock(fsys.lock)[1])
            /\ Len(res.commands) = n
            /\ \A i \in 1..n :
                  LET words == Words(res.commands[i])
                  IN  /\ Len(words) = 6
                      /\ words[3] = W_p /\ words[4] = res.issues[i].name
                      /\ words[5] = W_precise /\ words[6] = res.issues[i].maxCompatible
            /\ Len(patchLines) = 1 + n
            /\ patchLines[1] = PatchHeader
            /\ \A i \in 1..n :
                  patchLines[i + 1] = PinLine(res.issues[i].name, res.issues[i].maxCompatible)
            /\ \A i \in 1..n :
                  compareVersions(res.issues[i].currentVersion, res.issues[i].maxCompatible) > 0

\* C14's case: analyze has succeeded on a lockfile of two packages that are
\* both issues, of different crates
C14_Witness ==
    /\ AnalysisReturned /\ result[1].success
    /\ result[1].totalPackages = 2
    /\ Len(result[1].issues) = 2
    /\ result[1].issues[1].name = N_blake3
    /\ result[1].issues[2].name = N_zeroize
    /\ Len(result[1].commands) = 2
    /\ Len(Split(result[1].patchSection, "\n")) = 3

====
